---- MODULE Spec2Model ----
(***************************************************************************)
(* Bare-metal RISC-V runtime of riscvemu's C test programs: boot sequence, *)
(* vector table, trap handlers, CSR helpers and the timer rearm protocol.  *)
(*                                                                         *)
(* Two builds are modelled: "newlib" (src/toolchains/newlib) and "c"       *)
(* (src/c).  The hart has one program counter, pc, held as the label of    *)
(* the next step; Addr/LabelAt convert between labels and the addresses    *)
(* that the hardware saves in mepc.                                        *)
(***************************************************************************)
EXTENDS Integers, Sequences, FiniteSets, TLC

(***************************************************************************)
(* Bounds of the model                                                     *)
(***************************************************************************)
\* how many times the free-running counter advances in one behaviour
MaxTicks == 3
\* largest length in bytes of the initialised-data range [_sdata, _edata)
MaxDataLen == 6
\* the interrupted application may sit at any of AppPcCount consecutive
\* instructions from AppBase on
AppPcCount == 1
\* comparator writes are counted over the first MaxTraps timer traps
MaxTraps == 3

(***************************************************************************)
(* 64-bit unsigned words (uint64_t): four 16-bit limbs, least significant  *)
(* first.  The low half is limbs 1..2, the high half limbs 3..4: on the    *)
(* rv32 target each half is one 32-bit load or store.                      *)
(***************************************************************************)
Radix == 2^16

Zero64 == <<0, 0, 0, 0>>

Max64 == <<Radix - 1, Radix - 1, Radix - 1, Radix - 1>>

\* the uint64_t with value n, 0 <= n < 2^31 (an integer literal of the source)
FromInt(n) == <<n % Radix, (n \div Radix) % Radix, 0, 0>>

LoHalf(w) == <<w[1], w[2]>>

HiHalf(w) == <<w[3], w[4]>>

JoinHalves(lo, hi) == <<lo[1], lo[2], hi[1], hi[2]>>

\* carry out of a + b
CarryU64(a, b) ==
    LET s1 == a[1] + b[1]
        s2 == a[2] + b[2] + (s1 \div Radix)
        s3 == a[3] + b[3] + (s2 \div Radix)
        s4 == a[4] + b[4] + (s3 \div Radix)
    IN  s4 \div Radix

\* a faulty uint64_t addition: the carry into the high half is lost
AddU64NoCarry(a, b) ==
    LET s1 == a[1] + b[1]
        s2 == a[2] + b[2] + (s1 \div Radix)
        s3 == a[3] + b[3]
        s4 == a[4] + b[4] + (s3 \div Radix)
    IN  <<s1 % Radix, s2 % Radix, s3 % Radix, s4 % Radix>>

\* uint64_t addition, `*mtime + period`: the carry ripples, the carry out of
\* bit 63 is dropped
AddU64(a, b) ==
    LET s1 == a[1] + b[1]
        s2 == a[2] + b[2] + (s1 \div Radix)
        s3 == a[3] + b[3] + (s2 \div Radix)
        s4 == a[4] + b[4] + (s3 \div Radix)
    IN  <<s1 % Radix, s2 % Radix, s3 % Radix, s4 % Radix>>

\* unsigned comparison a < b, most significant limb first
LtU64(a, b) ==
    \E i \in 1..4 : a[i] < b[i] /\ \A j \in (i + 1)..4 : a[j] = b[j]

GeU64(a, b) == ~LtU64(a, b)

(***************************************************************************)
(* 32-bit registers as sets of bit positions                               *)
(***************************************************************************)
\* the bits set in the non-negative integer n
BitsOf(n) == {i \in 0..30 : (n \div (2^i)) % 2 = 1}

\* csr.h: CSR fields
MSTATUS_MIE == 2^3

MIE_MTIE == 2^7

\* bit positions the hardware uses (RISC-V privileged architecture)
BitMIE == 3

BitMPIE == 7

BitMSIE == 3

BitMTIE == 7

BitMEIE == 11

(***************************************************************************)
(* Code layout.  The vector table sits at address 0 (linker.ld: .vectors   *)
(* is the first input of .text, eeprom ORIGIN 0); every step of the model  *)
(* occupies one 4-byte slot after it.  The application's idle loop is the  *)
(* last label: every address from it onwards is application code.         *)
(***************************************************************************)
Code ==
    << "vec0", "vec1", "vec2", "vec3", "vec4", "vec5", "vec6", "vec7",
       "vec8", "vec9", "vec10", "vec11", "vec12", "vec13",
       "reset_sp", "reset_gp", "reset_call", "reset_tail",
       "c_setup_sp", "c_setup_addi",
       "init_entry", "init_loop", "init_ret",
       "nmi_printf", "nmi_halt",
       "exc_read", "exc_switch", "exc_ecall", "exc_mret", "exc_halt",
       "excc_printf", "excc_halt",
       "sw_printf", "sw_halt",
       "tmr_printf", "tmr_call", "tmr_mret",
       "ext_printf", "ext_halt",
       "st_read1", "st_read2", "st_write1", "st_write2",
       "gei_csrrsi", "emt_li", "emt_csrrs",
       "main_call", "main_mtie", "main_mie", "main_printf",
       "main_printf2", "main_loop" >>

Labels == {Code[i] : i \in 1..Len(Code)}

IndexOf(l) == CHOOSE i \in 1..Len(Code) : Code[i] = l

\* the address of the instruction at label l
Addr(l) == 4 * (IndexOf(l) - 1)

AppBase == Addr("main_loop")

\* addresses at which the application may be interrupted
AppPCs == {AppBase + 4 * i : i \in 0..(AppPcCount - 1)}

\* the label of the instruction at address a; "wild" when a is no
\* instruction of the image
LabelAt(a) ==
    IF a >= AppBase /\ a % 4 = 0 THEN "main_loop"
    ELSE IF a >= 0 /\ a % 4 = 0 THEN Code[(a \div 4) + 1]
    ELSE "wild"

\* the two builds
Builds == {"newlib", "c"}

\* a faulty table: one no-op too few before the timer vector
VectorTableShifted(b) ==
    << IF b = "newlib" THEN "_reset_handler" ELSE "_setup_stack",
       "_nmi_handler", "_exception_handler", "nop", "nop",
       "_software_isr", "nop", "nop",
       "_timer_isr", "nop", "nop", "nop", "nop",
       "_external_isr" >>

\* vector.S:3-16 and startup.S:6-19: the vector table, slot by slot
VectorTable(b) ==
    << IF b = "newlib" THEN "_reset_handler" ELSE "_setup_stack",
       "_nmi_handler", "_exception_handler", "nop", "nop",
       "_software_isr", "nop", "nop", "nop",
       "_timer_isr", "nop", "nop", "nop",
       "_external_isr" >>

\* the number of slots of the table
VectorSlots(b) == Len(VectorTable(b))

\* the two instructions behind the table.  startup.S:23-28: _setup_stack is
\* in the table's own section, right behind it.  vector.S:19 puts
\* _reset_handler in .text, and linker.ld:38-43 places the .text sections
\* behind KEEP(*(.vectors)) in link order, main.o first and vector.o fifth
\* (Makefile), so the table is followed by the start of the program, not by
\* _reset_handler.
AfterTable(b) ==
    IF b = "newlib" THEN << "main_call", "main_call" >>
    ELSE << "c_setup_sp", "c_setup_addi" >>

\* the instruction the hardware enters for slot n: base + 4 * n
SlotEntry(b, n) ==
    IF n < VectorSlots(b) THEN Code[n + 1]
    ELSE AfterTable(b)[n - VectorSlots(b) + 1]

\* what slot n holds: the class of the routine it jumps to, "nop", or
\* "none" when the table has no slot n and other code follows
SlotKind(b, n) ==
    IF n >= VectorSlots(b) THEN "none"
    ELSE LET e == VectorTable(b)[n + 1]
         IN  CASE e \in {"_reset_handler", "_setup_stack"} -> "reset"
               [] e = "_nmi_handler"       -> "nmi"
               [] e = "_exception_handler" -> "exception"
               [] e = "_software_isr"      -> "software"
               [] e = "_timer_isr"         -> "timer"
               [] e = "_external_isr"      -> "external"
               [] OTHER                    -> e

\* the first step of each routine the table names
EntryLabel(b, sym) ==
    CASE sym = "_reset_handler"     -> "reset_sp"
      [] sym = "_setup_stack"       -> "c_setup_sp"
      [] sym = "_nmi_handler"       -> "nmi_printf"
      [] sym = "_exception_handler" -> IF b = "newlib" THEN "exc_read"
                                       ELSE "excc_printf"
      [] sym = "_software_isr"      -> "sw_printf"
      [] sym = "_timer_isr"         -> IF b = "newlib" THEN "tmr_printf"
                                       ELSE "tmr_call"
      [] sym = "_external_isr"      -> "ext_printf"

(***************************************************************************)
(* Memory map (linker.ld) and the initialised-data image                   *)
(***************************************************************************)
\* ORIGIN(ram)
RamOrigin == 536870912

\* LENGTH(ram)
RamLength == 4194304

\* __stacktop = ORIGIN(ram) + LENGTH(ram) - 16
StackTop == RamOrigin + RamLength - 16

\* startup.S:27, li sp, 0x00021ff0
CStackTop == 139248

\* startup.S:25: sp must be 16-byte aligned, so the frame of a function
\* that keeps its return address on the stack is 16 bytes
HandlerFrame == 16

\* the stack pointer the boot sequence of build b sets
BootStack(b) == IF b = "newlib" THEN StackTop ELSE CStackTop

\* the prologue of a function that calls another: addi sp, sp, -16, and ra
\* saved in the frame.  The stack is followed for MaxTraps frames below the
\* boot value.
PushFrame(b, s) ==
    IF s - HandlerFrame >= BootStack(b) - MaxTraps * HandlerFrame
    THEN s - HandlerFrame
    ELSE s

\* li rd, v is two instructions when v does not fit in 12 signed bits:
\* lui rd, %hi(v) and addi rd, rd, %lo(v), with %lo(v) in -2048..2047
LiUpper(v) == ((v + 2048) \div 4096) * 4096

LiLower(v) == v - LiUpper(v)

\* LOADADDR(.data): .data is placed in eeprom after .text
DataLoadAddress == 4 * Len(Code)

\* PROVIDE( __global_pointer$ = . + (4K / 2) ) at the start of .data
GlobalPointer(sdata) == sdata + (4096 \div 2)

\* a layout the link step can produce: load address and runtime range
SplitLayout(n) ==
    [load |-> DataLoadAddress, sdata |-> RamOrigin, edata |-> RamOrigin + n]

\* flat memory model: load and runtime address coincide
FlatLayout(n) ==
    [load |-> RamOrigin, sdata |-> RamOrigin, edata |-> RamOrigin + n]

\* the byte addresses the copy may touch: whole words up to the first word
\* boundary at or after MaxDataLen
MaxSpan == 4 * ((MaxDataLen + 3) \div 4)

MemAddrs(lay) ==
    {lay.load + i : i \in 0..(MaxSpan - 1)} \cup
    {lay.sdata + i : i \in 0..(MaxSpan - 1)}

\* the byte the link step stored at offset i of the image
ImageByte(i) == i + 1

\* memory at reset: the image at its load address, RAM filled with fill
ResetMem(lay, fill) ==
    [a \in MemAddrs(lay) |->
        IF a >= lay.load /\ a < lay.load + MaxSpan
        THEN ImageByte(a - lay.load)
        ELSE fill]

(***************************************************************************)
(* State                                                                   *)
(***************************************************************************)
VARIABLES
    build,      \* which build runs
    pc,         \* label of the next step of the hart
    ra,         \* return-address register: label to return to
    sp, gp, t0, \* stack pointer, global pointer, temporary register
    mstatus,    \* CSR 0x300, a set of bit positions
    mie,        \* CSR 0x304, a set of bit positions
    mepc,       \* CSR 0x341
    mcause,     \* CSR 0x342, as the int read_csr returns
    mtime,      \* free-running counter at MTIME_BASE
    mtimecmp,   \* comparator at MTIMECMP_BASE
    layout,     \* linker-provided addresses _data_load_address, _sdata, _edata
    mem,        \* bytes of the image and of the runtime range
    init_values_ptr, data_ptr,   \* locals of _initialise_data
    mcauseL,    \* local mcause of _exception_handler
    period,     \* argument of set_timeout
    smp,        \* value set_timeout read from the counter, half by half
    half,       \* which half set_timeout has read or written first
    out,        \* what has been reported on the output port, and by whom
    active,     \* handlers entered and not returned from, innermost last
    writes,     \* software writes of registers and memory: [by, reg]
    entryMepc,  \* mepc as the hardware saved it at the latest trap entry
    entryCmp,   \* comparator at the latest timer trap entry
    afterCmp,   \* the two latest timer trap-returns: comparator, whether
                \* the rearm's sum carried out of bit 63 or its sample was torn,
                \* and whether the new deadline was reached at the return
    rearms,     \* comparator writes completed by the running timer handler
    cmpWrites,  \* completed writes *mtimecmp = ..., by who executed them,
                \* counted until MaxTraps timer traps have been taken and
                \* up to MaxTraps + 1 each
    timerEntries, \* timer traps taken so far, up to MaxTraps
    entryRegs,  \* ra, sp, gp, t0 at the latest trap entry
    seen,       \* counter values held while set_timeout read the counter;
                \* once the read is complete, the one the sample equals
    copyDone,   \* _initialise_data has returned
    wrapped,    \* the counter has wrapped past 2^64 - 1
    ticks       \* how often the counter has advanced

vars ==
    << build, pc, ra, sp, gp, t0, mstatus, mie, mepc, mcause, mtime,
       mtimecmp, layout, mem, init_values_ptr, data_ptr, mcauseL, period,
       smp, half, out, active, writes, entryMepc, entryCmp, afterCmp, rearms,
       cmpWrites, timerEntries, entryRegs, seen, copyDone, wrapped, ticks >>

\* registers and ghosts grouped for UNCHANGED
csrs == << mstatus, mie, mepc, mcause >>

regs == << ra, sp, gp, t0 >>

timer == << mtime, mtimecmp, wrapped, ticks >>

initData == << layout, mem, init_values_ptr, data_ptr, copyDone >>

stLocals == << period, smp, half, seen >>

trapGhosts ==
    << active, entryMepc, entryCmp, afterCmp, rearms, cmpWrites,
       timerEntries, entryRegs >>

\* who can execute: the foreground, the handler of each kind of trap, and
\* whatever runs after a trap on a cause the table leaves unused
Contexts ==
    {"foreground", "nmi", "exception", "software", "timer", "external",
     "reserved"}

NoWrites == [c \in Contexts |-> 0]

\* who executes: the innermost active handler, or the foreground
Ctx == IF active = << >> THEN "foreground" ELSE active[Len(active)]

Wrote(reg) == writes \cup {[by |-> Ctx, reg |-> reg]}

Said(msg) == out \cup {[by |-> Ctx, msg |-> msg]}

(***************************************************************************)
(* Privileged-register access (interrupts.S, trap.c read_csr/write_csr)    *)
(***************************************************************************)
\* a faulty set-bits: the register is overwritten with the mask (csrrw)
CsrOverwriteBits(reg, mask) == mask

\* csrrs / csrrsi: set the bits of mask in the register, keep the others
CsrSetBits(reg, mask) == reg \cup mask

\* the 5-bit zero-extended immediate of csrrsi
Uimm5(n) == n % 32

\* global_enable_interrupts: csrrsi x0, CSR_MSTATUS, MSTATUS_MIE
GlobalEnableInterrupts(ms) == CsrSetBits(ms, BitsOf(Uimm5(MSTATUS_MIE)))

\* enable_machine_timer_interrupt: csrrs x0, CSR_MIE, t0
EnableMachineTimerInterrupt(mi, t) == CsrSetBits(mi, BitsOf(t))

(***************************************************************************)
(* Trap classifier (toolchains/newlib/trap.c)                              *)
(***************************************************************************)
\* bit 31 of the 32-bit mcause, as the int read_csr returns it
InterruptBit == -(2^30) - (2^30)

IntCause(code) == InterruptBit + code

MCAUSE_MMODE_ECALL == 11

\* the synchronous causes trap.c names with a `break`
DefinedFaults == 0..7

\* a faulty classifier: the default case resumes too
DispositionResumeUnknown(c) ==
    IF c = MCAUSE_MMODE_ECALL THEN "ecall" ELSE "resume"

\* a faulty classifier: the faults are stepped over like an ecall
DispositionFaultsAsEcall(c) ==
    IF c \in DefinedFaults \cup {MCAUSE_MMODE_ECALL} THEN "ecall" ELSE "halt"

\* switch(mcause) of _exception_handler
ExceptionDisposition(c) ==
    CASE c \in DefinedFaults      -> "resume"
      [] c = MCAUSE_MMODE_ECALL   -> "ecall"
      [] OTHER                    -> "halt"

\* a faulty ecall path: mepc is left at the ecall
EcallResumeSame(epc) == epc

\* write_csr(CSR_MEPC, read_csr(CSR_MEPC) + 4)
EcallResume(epc) == epc + 4

(***************************************************************************)
(* Timer rearm protocol (interrupts.c set_timeout) and its callers         *)
(***************************************************************************)
\* main: set_timeout(2000000)
MainPeriod == 2000000

\* toolchains/newlib/trap.c _timer_isr: set_timeout(2000000)
NewlibTimerPeriod == 2000000

\* c/trap.c _timer_isr: set_timeout(50)
CTimerPeriod == 50

TimerPeriod(b) == IF b = "newlib" THEN NewlibTimerPeriod ELSE CTimerPeriod

\* *mtime + period
SetTimeoutSum(counter, p) == AddU64(counter, p)

(***************************************************************************)
(* _initialise_data (init_data.c)                                          *)
(***************************************************************************)
\* *data_ptr = *init_values_ptr for one uint32_t: four bytes
CopyWord(m, dst, src) ==
    [a \in DOMAIN m |->
        IF a >= dst /\ a < dst + 4 THEN m[src + (a - dst)] ELSE m[a]]

\* a faulty loop test: only words that lie wholly below _edata are copied
InitLoopCondWholeWords(dp, edata) == dp + 4 <= edata

\* data_ptr < &_edata
InitLoopCond(dp, edata) == dp < edata

\* init_values_ptr != data_ptr
InitCopyNeeded(load, sdata) == load # sdata

(***************************************************************************)
(* Hardware: trap entry and trap return, the counter                       *)
(***************************************************************************)
\* trap entry: MPIE := MIE, MIE := 0
TrapEntryStatus(ms) ==
    (ms \ {BitMIE, BitMPIE}) \cup (IF BitMIE \in ms THEN {BitMPIE} ELSE {})

\* mret: MIE := MPIE, MPIE := 1
MretStatus(ms) ==
    (ms \ {BitMIE}) \cup {BitMPIE} \cup
        (IF BitMPIE \in ms THEN {BitMIE} ELSE {})

\* cause codes of the machine interrupts and the slot each enters, counted
\* from the table's first entry: the trap base is slot 2, an interrupt
\* with code c enters slot 2 + c
CauseSoftware == 3

CauseTimer == 7

CauseExternal == 11

SlotNmi == 1

SlotBase == 2

InterruptSlot(code) == SlotBase + code

\* the timer interrupt is pending
TimerPending == GeU64(mtime, mtimecmp)

\* the causes raised while the whole machine runs: two named faults, the
\* environment call, an unnamed code and one with the interrupt bit
CoreCauses == {0, 7, 8, MCAUSE_MMODE_ECALL, IntCause(CauseTimer)}

\* the address the hardware saves: that of the interrupted instruction
InterruptedPCs == IF pc = "main_loop" THEN AppPCs ELSE {Addr(pc)}

(***************************************************************************)
(* Reset state.  mstatus.MIE and mie.MTIE are clear; the other bits, the   *)
(* counter, the comparator and RAM hold whatever the platform leaves.      *)
(***************************************************************************)
\* contents of mstatus, mie and the comparator at reset: all clear, or the
\* previous privilege field of mstatus, the software and external enables
\* and every comparator bit set
ResetSeeds ==
    { [mstatus |-> {}, mie |-> {}, mtimecmp |-> Zero64],
      [mstatus |-> {11, 12}, mie |-> {BitMSIE, BitMEIE},
       mtimecmp |-> Max64] }

\* 2^32 - 1 and 2^64 - 1
HalfEdge == <<Radix - 1, Radix - 1, 0, 0>>

\* a - b for b <= a, limb by limb with borrow
SubU64(a, b) ==
    LET d1 == a[1] - b[1]
        d2 == a[2] - b[2] - (IF d1 < 0 THEN 1 ELSE 0)
        d3 == a[3] - b[3] - (IF d2 < 0 THEN 1 ELSE 0)
        d4 == a[4] - b[4] - (IF d3 < 0 THEN 1 ELSE 0)
    IN  << (d1 + Radix) % Radix, (d2 + Radix) % Radix,
           (d3 + Radix) % Radix, (d4 + Radix) % Radix >>

\* counter values at reset: 0, and values from which the armed deadline
\* lands on the last value of the low half and on the last value at all
CounterSeeds(b) ==
    { Zero64,
      SubU64(HalfEdge, AddU64(FromInt(MainPeriod), FromInt(TimerPeriod(b)))),
      SubU64(Max64, AddU64(FromInt(MainPeriod), FromInt(MainPeriod))) }

\* linker.ld places .data in ram and its image in eeprom; the c build
\* has no separate image
BootLayouts(b) ==
    IF b = "newlib" THEN {SplitLayout(MaxDataLen)}
    ELSE {FlatLayout(MaxDataLen)}

Init ==
    /\ build \in Builds
    /\ pc = "vec0"
    /\ ra = "none"
    /\ sp = 0 /\ gp = 0 /\ t0 = 0
    /\ \E r \in ResetSeeds :
        /\ mstatus = r.mstatus
        /\ mie = r.mie
        /\ mtimecmp = r.mtimecmp
    /\ mepc = 0
    /\ mcause = 0
    /\ mtime \in CounterSeeds(build)
    /\ layout \in BootLayouts(build)
    /\ mem = ResetMem(layout, 0)
    /\ init_values_ptr = 0 /\ data_ptr = 0
    /\ mcauseL = 0
    /\ period = Zero64
    /\ smp = Zero64
    /\ half = "-"
    /\ out = {}
    /\ active = << >>
    /\ writes = {}
    /\ entryMepc = 0
    /\ entryCmp = Zero64
    /\ afterCmp = << >>
    /\ rearms = 0
    /\ cmpWrites = NoWrites
    /\ timerEntries = 0
    /\ entryRegs = regs
    /\ seen = {}
    /\ copyDone = FALSE
    /\ wrapped = FALSE
    /\ ticks = 0

(***************************************************************************)
(* Steps that only move the program counter                                *)
(***************************************************************************)
Goto(l) ==
    /\ pc' = l
    /\ UNCHANGED << build, regs, csrs, timer, initData, stLocals,
                    trapGhosts, mcauseL, out, writes >>

\* one slot of the vector table: a jump to the named routine, or a nop
VectorSlot ==
    \E n \in 0..13 :
        /\ pc = Code[n + 1]
        /\ LET e == VectorTable(build)[n + 1]
           IN  Goto(IF e = "nop" THEN Code[n + 2] ELSE EntryLabel(build, e))

(***************************************************************************)
(* Boot sequence: vector.S _reset_handler, startup.S _setup_stack          *)
(***************************************************************************)
\* la sp, __stacktop
ResetSetSp ==
    /\ pc = "reset_sp"
    /\ sp' = StackTop
    /\ pc' = "reset_gp"
    /\ UNCHANGED << build, ra, gp, t0, csrs, timer, initData, stLocals,
                    trapGhosts, mcauseL, out, writes >>

\* a faulty _reset_handler: the global pointer is not set
ResetGpSkipped ==
    /\ pc = "reset_gp"
    /\ Goto("reset_call")

\* la gp, __global_pointer$
ResetSetGp ==
    /\ pc = "reset_gp"
    /\ gp' = GlobalPointer(layout.sdata)
    /\ pc' = "reset_call"
    /\ UNCHANGED << build, ra, sp, t0, csrs, timer, initData, stLocals,
                    trapGhosts, mcauseL, out, writes >>

\* a faulty _reset_handler: the call of _initialise_data is missing
ResetSkipInit ==
    /\ pc = "reset_call"
    /\ Goto("reset_tail")

\* call _initialise_data
ResetCallInit ==
    /\ pc = "reset_call"
    /\ ra' = "reset_tail"
    /\ pc' = "init_entry"
    /\ UNCHANGED << build, sp, gp, t0, csrs, timer, initData, stLocals,
                    trapGhosts, mcauseL, out, writes >>

\* the two pointers and the test init_values_ptr != data_ptr
InitEntry ==
    /\ pc = "init_entry"
    /\ init_values_ptr' = layout.load
    /\ data_ptr' = layout.sdata
    /\ pc' = IF InitCopyNeeded(layout.load, layout.sdata)
             THEN "init_loop" ELSE "init_ret"
    /\ UNCHANGED << build, regs, csrs, timer, layout, mem, copyDone,
                    stLocals, trapGhosts, mcauseL, out, writes >>

\* one pass of for (; data_ptr < &_edata;) *data_ptr++ = *init_values_ptr++
InitLoop ==
    /\ pc = "init_loop"
    /\ IF InitLoopCond(data_ptr, layout.edata)
       THEN /\ mem' = CopyWord(mem, data_ptr, init_values_ptr)
            /\ data_ptr' = data_ptr + 4
            /\ init_values_ptr' = init_values_ptr + 4
            /\ writes' = Wrote("data")
            /\ pc' = "init_loop"
       ELSE /\ pc' = "init_ret"
            /\ UNCHANGED << mem, data_ptr, init_values_ptr, writes >>
    /\ UNCHANGED << build, regs, csrs, timer, layout, copyDone, stLocals,
                    trapGhosts, mcauseL, out >>

\* return of _initialise_data
InitRet ==
    /\ pc = "init_ret"
    /\ pc' = ra
    /\ copyDone' = TRUE
    /\ UNCHANGED << build, regs, csrs, timer, layout, mem, init_values_ptr,
                    data_ptr, stLocals, trapGhosts, mcauseL, out, writes >>

\* tail _start: newlib's crt0, which calls main
ResetTailStart ==
    /\ pc = "reset_tail"
    /\ Goto("main_call")

\* li sp, 0x00021ff0, first instruction: lui sp, 0x22
CSetupStack ==
    /\ pc = "c_setup_sp"
    /\ sp' = LiUpper(CStackTop)
    /\ pc' = "c_setup_addi"
    /\ UNCHANGED << build, ra, gp, t0, csrs, timer, initData, stLocals,
                    trapGhosts, mcauseL, out, writes >>

\* li sp, 0x00021ff0, second instruction: addi sp, sp, -16; then tail main.
\* sp is at least 16 wherever this step is reached, so the sum stays in
\* 32 bits.
CSetupStackLow ==
    /\ pc = "c_setup_addi"
    /\ sp' = sp + LiLower(CStackTop)
    /\ pc' = "main_call"
    /\ UNCHANGED << build, ra, gp, t0, csrs, timer, initData, stLocals,
                    trapGhosts, mcauseL, out, writes >>

(***************************************************************************)
(* Application: main (main.c)                                              *)
(***************************************************************************)
\* set_timeout(2000000)
MainCallSetTimeout ==
    /\ pc = "main_call"
    /\ period' = FromInt(MainPeriod)
    /\ ra' = "main_mtie"
    /\ pc' = "st_read1"
    /\ UNCHANGED << build, sp, gp, t0, csrs, timer, initData, smp, half,
                    seen, trapGhosts, mcauseL, out, writes >>

\* a faulty main: it arms the timer a second time
MainArmsAgain ==
    /\ pc = "main_mtie"
    /\ period' = FromInt(MainPeriod)
    /\ ra' = "main_mie"
    /\ pc' = "st_read1"
    /\ UNCHANGED << build, sp, gp, t0, csrs, timer, initData, smp, half,
                    seen, trapGhosts, mcauseL, out, writes >>

\* enable_machine_timer_interrupt()
MainEnableTimer ==
    /\ pc = "main_mtie"
    /\ ra' = "main_mie"
    /\ pc' = "emt_li"
    /\ UNCHANGED << build, sp, gp, t0, csrs, timer, initData, stLocals,
                    trapGhosts, mcauseL, out, writes >>

\* global_enable_interrupts()
MainEnableGlobal ==
    /\ pc = "main_mie"
    /\ ra' = "main_printf"
    /\ pc' = "gei_csrrsi"
    /\ UNCHANGED << build, sp, gp, t0, csrs, timer, initData, stLocals,
                    trapGhosts, mcauseL, out, writes >>

\* printf("Enabled timer!\n"): the output port is written character by
\* character (newlib.c _write, printf.c putchar); the first characters
MainPrintf ==
    /\ pc = "main_printf"
    /\ out' = Said("Enabled")
    /\ pc' = "main_printf2"
    /\ UNCHANGED << build, regs, csrs, timer, initData, stLocals,
                    trapGhosts, mcauseL, writes >>

\* printf("Enabled timer!\n"): the remaining characters, and the return
MainPrintfEnd ==
    /\ pc = "main_printf2"
    /\ out' = Said("Enabled timer!")
    /\ pc' = "main_loop"
    /\ UNCHANGED << build, regs, csrs, timer, initData, stLocals,
                    trapGhosts, mcauseL, writes >>

(***************************************************************************)
(* interrupts.S                                                            *)
(***************************************************************************)
\* li t0, MIE_MTIE
EmtLi ==
    /\ pc = "emt_li"
    /\ t0' = MIE_MTIE
    /\ pc' = "emt_csrrs"
    /\ UNCHANGED << build, ra, sp, gp, csrs, timer, initData, stLocals,
                    trapGhosts, mcauseL, out, writes >>

\* csrrs x0, CSR_MIE, t0; ret
EmtCsrrs ==
    /\ pc = "emt_csrrs"
    /\ mie' = EnableMachineTimerInterrupt(mie, t0)
    /\ writes' = Wrote("mie")
    /\ pc' = ra
    /\ UNCHANGED << build, regs, mstatus, mepc, mcause, timer, initData,
                    stLocals, trapGhosts, mcauseL, out >>

\* csrrsi x0, CSR_MSTATUS, MSTATUS_MIE; ret
GeiCsrrsi ==
    /\ pc = "gei_csrrsi"
    /\ mstatus' = GlobalEnableInterrupts(mstatus)
    /\ writes' = Wrote("mstatus")
    /\ pc' = ra
    /\ UNCHANGED << build, regs, mie, mepc, mcause, timer, initData,
                    stLocals, trapGhosts, mcauseL, out >>

(***************************************************************************)
(* set_timeout (interrupts.c).  On rv32 the 64-bit read of the counter and *)
(* the 64-bit write of the comparator are two 32-bit accesses each, in an  *)
(* order the compiler chooses.                                             *)
(***************************************************************************)
Halves == {"lo", "hi"}

\* word w with half h replaced by that half of v
WithHalf(w, h, v) ==
    IF h = "lo" THEN JoinHalves(LoHalf(v), HiHalf(w))
    ELSE JoinHalves(LoHalf(w), HiHalf(v))

OtherHalf(h) == IF h = "lo" THEN "hi" ELSE "lo"

\* first 32-bit load of *mtime
StRead1 ==
    /\ pc = "st_read1"
    /\ \E h \in Halves :
        /\ smp' = WithHalf(Zero64, h, mtime)
        /\ half' = h
    /\ seen' = {mtime}
    /\ pc' = "st_read2"
    /\ UNCHANGED << build, regs, csrs, timer, initData, period,
                    trapGhosts, mcauseL, out, writes >>

\* second 32-bit load of *mtime
StRead2 ==
    /\ pc = "st_read2"
    /\ smp' = WithHalf(smp, OtherHalf(half), mtime)
    /\ half' = "-"
    /\ seen' = (seen \cup {mtime}) \cap {smp'}
    /\ pc' = "st_write1"
    /\ UNCHANGED << build, regs, csrs, timer, initData, period,
                    trapGhosts, mcauseL, out, writes >>

\* the addition and the first 32-bit store of *mtimecmp
StWrite1 ==
    /\ pc = "st_write1"
    /\ \E h \in Halves :
        /\ mtimecmp' = WithHalf(mtimecmp, h, SetTimeoutSum(smp, period))
        /\ half' = h
    /\ writes' = Wrote("mtimecmp")
    /\ pc' = "st_write2"
    /\ UNCHANGED << build, regs, csrs, mtime, wrapped, ticks, initData,
                    period, smp, seen, trapGhosts, mcauseL, out >>

\* the second 32-bit store of *mtimecmp, and the return
StWrite2 ==
    /\ pc = "st_write2"
    /\ mtimecmp' = WithHalf(mtimecmp, OtherHalf(half),
                            SetTimeoutSum(smp, period))
    /\ half' = "-"
    /\ pc' = ra
    /\ rearms' = IF Ctx = "timer" THEN rearms + 1 ELSE rearms
    /\ cmpWrites' = IF timerEntries < MaxTraps /\ cmpWrites[Ctx] <= MaxTraps
                    THEN [cmpWrites EXCEPT ![Ctx] = @ + 1]
                    ELSE cmpWrites
    /\ UNCHANGED << build, regs, csrs, mtime, wrapped, ticks, initData,
                    period, smp, seen, active, entryMepc, entryCmp, afterCmp,
                    timerEntries, entryRegs,
                    mcauseL, out, writes >>

(***************************************************************************)
(* The free-running counter advances on its own                            *)
(***************************************************************************)
TickSteps(b) == {1, MainPeriod, TimerPeriod(b)}

Tick ==
    /\ ticks < MaxTicks
    /\ \E d \in TickSteps(build) :
        /\ mtime' = AddU64(mtime, FromInt(d))
        /\ wrapped' = (wrapped \/ CarryU64(mtime, FromInt(d)) = 1)
    /\ ticks' = ticks + 1
    /\ seen' = IF pc = "st_read2" THEN seen \cup {mtime'} ELSE seen
    /\ UNCHANGED << build, pc, regs, csrs, mtimecmp, initData, period, smp,
                    half, trapGhosts, mcauseL, out, writes >>

(***************************************************************************)
(* Hardware trap entry: clear MIE, save the resume address and the cause,  *)
(* enter the vector table at the cause's slot.                             *)
(***************************************************************************)
TrapEntry(kind, cause, slot) ==
    /\ \E epc \in InterruptedPCs :
        /\ mepc' = epc
        /\ entryMepc' = epc
    /\ mstatus' = TrapEntryStatus(mstatus)
    /\ mcause' = cause
    /\ pc' = SlotEntry(build, slot)
    /\ active' = Append(active, kind)
    /\ entryCmp' = IF kind = "timer" THEN mtimecmp ELSE entryCmp
    /\ rearms' = IF kind = "timer" THEN 0 ELSE rearms
    /\ timerEntries' = IF kind = "timer" /\ timerEntries < MaxTraps
                       THEN timerEntries + 1
                       ELSE timerEntries
    /\ entryRegs' = regs
    /\ UNCHANGED << build, regs, mie, timer, initData, stLocals, afterCmp,
                    cmpWrites, mcauseL, out, writes >>

\* machine timer interrupt: enabled globally and per source, and pending
TimerInterrupt ==
    /\ BitMIE \in mstatus
    /\ BitMTIE \in mie
    /\ TimerPending
    /\ TrapEntry("timer", IntCause(CauseTimer), InterruptSlot(CauseTimer))

\* machine software interrupt, raised by the platform at any time
SoftwareInterrupt ==
    /\ BitMIE \in mstatus
    /\ BitMSIE \in mie
    /\ TrapEntry("software", IntCause(CauseSoftware),
                 InterruptSlot(CauseSoftware))

\* machine external interrupt, raised by the platform at any time
ExternalInterrupt ==
    /\ BitMIE \in mstatus
    /\ BitMEIE \in mie
    /\ TrapEntry("external", IntCause(CauseExternal),
                 InterruptSlot(CauseExternal))

\* non-maskable interrupt: taken whatever the enable bits are, during boot
\* and in the application; like every trap it is not taken while a handler
\* runs
Nmi ==
    /\ pc \in Labels
    /\ active = << >>
    /\ TrapEntry("nmi", 0, SlotNmi)

\* synchronous exception raised by an instruction of the application
ExceptionFrom(causes) ==
    /\ pc = "main_loop"
    /\ active = << >>
    /\ \E c \in causes : TrapEntry("exception", c, SlotBase)

Exception == ExceptionFrom(CoreCauses)

\* mret: restore the saved interrupt enable, resume at mepc
Mret ==
    /\ pc \in {"exc_mret", "tmr_mret"}
    /\ mstatus' = MretStatus(mstatus)
    /\ pc' = LabelAt(mepc)
    /\ active' = IF active = << >> THEN active
                 ELSE SubSeq(active, 1, Len(active) - 1)
    /\ afterCmp' =
        IF pc = "tmr_mret"
        THEN LET r == [cmp   |-> mtimecmp,
                       carry |-> CarryU64(smp, period) = 1,
                       torn  |-> smp \notin seen,
                       late  |-> GeU64(mtime, mtimecmp)]
             IN  IF afterCmp = << >> THEN << r >>
                 ELSE << afterCmp[Len(afterCmp)], r >>
        ELSE afterCmp
    /\ mcauseL' = 0
    /\ UNCHANGED << build, regs, mie, mepc, mcause, timer, initData,
                    stLocals, entryMepc, entryCmp, rearms, cmpWrites,
                    timerEntries, entryRegs, out, writes >>

(***************************************************************************)
(* Trap handlers (trap.c)                                                  *)
(***************************************************************************)
Report(at, msg, next) ==
    /\ pc = at
    /\ out' = Said(msg)
    /\ pc' = next
    /\ UNCHANGED << build, regs, csrs, timer, initData, stLocals,
                    trapGhosts, mcauseL, writes >>

\* _nmi_handler: printf("nmi")
NmiPrintf == Report("nmi_printf", "nmi", "nmi_halt")

\* a faulty _software_isr: it reports, then returns from the trap
SwPrintfThenReturn == Report("sw_printf", "software", "exc_mret")

\* _software_isr: printf("software")
SwPrintf == Report("sw_printf", "software", "sw_halt")

\* _external_isr: printf("external")
ExtPrintf == Report("ext_printf", "external", "ext_halt")

\* c/trap.c _exception_handler: printf("exception")
ExccPrintf == Report("excc_printf", "exception", "excc_halt")

\* a faulty _timer_isr: it re-enables interrupts before it has rearmed
TmrPrintfEnabling ==
    /\ pc = "tmr_printf"
    /\ out' = Said("tick")
    /\ mstatus' = GlobalEnableInterrupts(mstatus)
    /\ writes' = Wrote("mstatus")
    /\ pc' = "tmr_call"
    /\ UNCHANGED << build, regs, mie, mepc, mcause, timer, initData,
                    stLocals, trapGhosts, mcauseL >>

\* a faulty _timer_isr: it steps mepc over the interrupted instruction
TmrPrintfSkipping ==
    /\ pc = "tmr_printf"
    /\ out' = Said("tick")
    /\ mepc' = EcallResume(mepc)
    /\ pc' = "tmr_call"
    /\ UNCHANGED << build, regs, mstatus, mie, mcause, timer, initData,
                    stLocals, trapGhosts, mcauseL, writes >>

\* toolchains/newlib/trap.c _timer_isr: the prologue of the function, which
\* calls printf and set_timeout and so keeps ra in a frame, and
\* printf("tick\n")
TmrPrintf ==
    /\ pc = "tmr_printf"
    /\ sp' = PushFrame(build, sp)
    /\ out' = Said("tick")
    /\ pc' = "tmr_call"
    /\ UNCHANGED << build, ra, gp, t0, csrs, timer, initData, stLocals,
                    trapGhosts, mcauseL, writes >>

\* the labels of the while (1) ; loops
HaltLabels == {"nmi_halt", "sw_halt", "ext_halt", "exc_halt", "excc_halt"}

\* while (1) ; of a handler
HaltLoop ==
    /\ pc \in HaltLabels
    /\ UNCHANGED vars

\* while (1) ; of main
MainLoop ==
    /\ pc = "main_loop"
    /\ UNCHANGED vars

\* int mcause = read_csr(CSR_MCAUSE)
ExcRead ==
    /\ pc = "exc_read"
    /\ mcauseL' = mcause
    /\ pc' = "exc_switch"
    /\ UNCHANGED << build, regs, csrs, timer, initData, stLocals,
                    trapGhosts, out, writes >>

\* switch (mcause)
ExcSwitch ==
    /\ pc = "exc_switch"
    /\ LET d == ExceptionDisposition(mcauseL)
       IN  Goto(CASE d = "resume" -> "exc_mret"
                  [] d = "ecall"  -> "exc_ecall"
                  [] d = "halt"   -> "exc_halt")

\* case MCAUSE_MMODE_ECALL: write_csr(CSR_MEPC, read_csr(CSR_MEPC) + 4)
ExcEcall ==
    /\ pc = "exc_ecall"
    /\ mepc' = EcallResume(mepc)
    /\ writes' = Wrote("mepc")
    /\ pc' = "exc_mret"
    /\ UNCHANGED << build, regs, mstatus, mie, mcause, timer, initData,
                    stLocals, trapGhosts, mcauseL, out >>

\* a faulty _timer_isr: it returns without rearming
TmrCallSkipped ==
    /\ pc = "tmr_call"
    /\ Goto("tmr_mret")

\* a faulty _timer_isr: it masks the timer interrupt while it rearms
TmrCallMasking ==
    /\ pc = "tmr_call"
    /\ period' = FromInt(TimerPeriod(build))
    /\ ra' = "tmr_mret"
    /\ pc' = "st_read1"
    /\ mie' = mie \ {BitMTIE}
    /\ UNCHANGED << build, sp, gp, t0, mstatus, mepc, mcause, timer, initData,
                    smp, half, seen, trapGhosts, mcauseL, out, writes >>

\* _timer_isr: set_timeout(2000000), or set_timeout(50) in c/trap.c, where
\* the call is the function's first statement and follows its prologue
TmrCall ==
    /\ pc = "tmr_call"
    /\ period' = FromInt(TimerPeriod(build))
    /\ ra' = "tmr_mret"
    /\ sp' = IF build = "c" THEN PushFrame(build, sp) ELSE sp
    /\ pc' = "st_read1"
    /\ UNCHANGED << build, gp, t0, csrs, timer, initData, smp, half,
                    seen, trapGhosts, mcauseL, out, writes >>

(***************************************************************************)
(* The whole machine                                                       *)
(***************************************************************************)
Next ==
    \/ VectorSlot
    \/ ResetSetSp \/ ResetSetGp \/ ResetCallInit
    \/ InitEntry \/ InitLoop \/ InitRet
    \/ ResetTailStart \/ CSetupStack \/ CSetupStackLow
    \/ MainCallSetTimeout \/ MainEnableTimer \/ MainEnableGlobal
    \/ MainPrintf \/ MainPrintfEnd \/ MainLoop
    \/ EmtLi \/ EmtCsrrs \/ GeiCsrrsi
    \/ StRead1 \/ StRead2 \/ StWrite1 \/ StWrite2
    \/ Tick
    \/ TimerInterrupt \/ SoftwareInterrupt \/ ExternalInterrupt
    \/ Nmi \/ Exception \/ Mret
    \/ NmiPrintf \/ SwPrintf \/ ExtPrintf \/ ExccPrintf \/ TmrPrintf
    \/ HaltLoop
    \/ ExcRead \/ ExcSwitch \/ ExcEcall \/ TmrCall

Spec == Init /\ [][Next]_vars

(***************************************************************************)
(* The whole machine with the progress the hardware guarantees: the hart   *)
(* keeps executing instructions, and a timer interrupt that is pending and *)
(* enabled is taken at an instruction boundary.                            *)
(***************************************************************************)
\* the hart executes its next instruction
HartStep ==
    \/ VectorSlot
    \/ ResetSetSp \/ ResetSetGp \/ ResetCallInit
    \/ InitEntry \/ InitLoop \/ InitRet
    \/ ResetTailStart \/ CSetupStack \/ CSetupStackLow
    \/ MainCallSetTimeout \/ MainEnableTimer \/ MainEnableGlobal
    \/ MainPrintf \/ MainPrintfEnd
    \/ EmtLi \/ EmtCsrrs \/ GeiCsrrsi
    \/ StRead1 \/ StRead2 \/ StWrite1 \/ StWrite2
    \/ Mret
    \/ NmiPrintf \/ SwPrintf \/ ExtPrintf \/ ExccPrintf \/ TmrPrintf
    \/ ExcRead \/ ExcSwitch \/ ExcEcall \/ TmrCall

\* reset states from which progress is checked: the counter at zero, in
\* the newlib build with mstatus and mie clear, and in the c build also
\* with their other bits set and with the counter close to its last value
InitLive ==
    /\ Init
    /\ \/ mtime = Zero64 /\ (mstatus = {} \/ build = "c")
       \/ mstatus = {} /\ mtime[4] = Radix - 1 /\ build = "c"

SpecLive ==
    /\ InitLive
    /\ [][Next]_vars
    /\ WF_vars(HartStep)
    /\ SF_vars(TimerInterrupt)

(***************************************************************************)
(* set_timeout on its own: called once with any period, from any counter   *)
(* value, while the counter runs                                            *)
(***************************************************************************)
\* periods a caller may pass: none is rejected
Periods ==
    { Zero64, FromInt(1), FromInt(CTimerPeriod), FromInt(MainPeriod),
      HalfEdge, Max64 }

\* counter values the call may start from
SetTimeoutCounters ==
    { Zero64, FromInt(MainPeriod), SubU64(HalfEdge, FromInt(1)), HalfEdge,
      SubU64(Max64, FromInt(1)), Max64 }

InitSetTimeout ==
    /\ build \in Builds
    /\ pc = "main_call"
    /\ ra = "none"
    /\ sp = 0 /\ gp = 0 /\ t0 = 0
    /\ \E r \in ResetSeeds :
        /\ mstatus = r.mstatus
        /\ mie = r.mie
        /\ mtimecmp = r.mtimecmp
    /\ mepc = 0
    /\ mcause = 0
    /\ mtime \in SetTimeoutCounters
    /\ layout \in BootLayouts(build)
    /\ mem = ResetMem(layout, 0)
    /\ init_values_ptr = 0 /\ data_ptr = 0
    /\ mcauseL = 0
    /\ period = Zero64
    /\ smp = Zero64
    /\ half = "-"
    /\ out = {}
    /\ active = << >>
    /\ writes = {}
    /\ entryMepc = 0
    /\ entryCmp = Zero64
    /\ afterCmp = << >>
    /\ rearms = 0
    /\ cmpWrites = NoWrites
    /\ timerEntries = 0
    /\ entryRegs = regs
    /\ seen = {}
    /\ copyDone = TRUE
    /\ wrapped = FALSE
    /\ ticks = 0

\* set_timeout(p) for any p
CallSetTimeout ==
    /\ pc = "main_call"
    /\ period' \in Periods
    /\ ra' = "main_mtie"
    /\ pc' = "st_read1"
    /\ UNCHANGED << build, sp, gp, t0, csrs, timer, initData, smp, half,
                    seen, trapGhosts, mcauseL, out, writes >>

NextSetTimeout ==
    \/ CallSetTimeout
    \/ StRead1 \/ StRead2 \/ StWrite1 \/ StWrite2
    \/ Tick

SpecSetTimeout == InitSetTimeout /\ [][NextSetTimeout]_vars

(***************************************************************************)
(* The two enable routines on their own: called in any order, any number   *)
(* of times, from any contents of mstatus and mie                          *)
(***************************************************************************)
\* bit positions the two registers may hold at the first call
CsrSampleBits == {0, BitMIE, BitMPIE, BitMEIE, 31}

InitCsr ==
    /\ build \in Builds
    /\ pc \in {"main_mtie", "main_mie"}
    /\ ra = "none"
    /\ sp = 0 /\ gp = 0
    /\ t0 \in {0, 2^11}
    /\ mstatus \in SUBSET CsrSampleBits
    /\ mie \in SUBSET CsrSampleBits
    /\ mepc = 0
    /\ mcause = 0
    /\ mtime = Zero64
    /\ mtimecmp = Max64
    /\ layout \in BootLayouts(build)
    /\ mem = ResetMem(layout, 0)
    /\ init_values_ptr = 0 /\ data_ptr = 0
    /\ mcauseL = 0
    /\ period = Zero64
    /\ smp = Zero64
    /\ half = "-"
    /\ out = {}
    /\ active = << >>
    /\ writes = {}
    /\ entryMepc = 0
    /\ entryCmp = Zero64
    /\ afterCmp = << >>
    /\ rearms = 0
    /\ cmpWrites = NoWrites
    /\ timerEntries = 0
    /\ entryRegs = regs
    /\ seen = {}
    /\ copyDone = TRUE
    /\ wrapped = FALSE
    /\ ticks = 0

\* the caller goes on to call one of the two routines again
CsrCallAgain ==
    /\ pc \in {"main_mie", "main_printf"}
    /\ Goto("main_mtie")

NextCsr ==
    \/ MainEnableTimer \/ EmtLi \/ EmtCsrrs
    \/ MainEnableGlobal \/ GeiCsrrsi
    \/ CsrCallAgain

SpecCsr == InitCsr /\ [][NextCsr]_vars

(***************************************************************************)
(* The boot sequence up to the return of _initialise_data, for every       *)
(* placement and length of .data and any contents of RAM                   *)
(***************************************************************************)
\* .data placed apart from its image or on top of it, of every length
DataLayouts ==
    {SplitLayout(n) : n \in 0..MaxDataLen} \cup
    {FlatLayout(n) : n \in 0..MaxDataLen}

\* what RAM may hold at reset
RamFills == {0, 255}

InitInitData ==
    /\ build = "newlib"
    /\ pc = "reset_sp"
    /\ ra = "none"
    /\ sp = 0 /\ gp = 0 /\ t0 = 0
    /\ \E r \in ResetSeeds :
        /\ mstatus = r.mstatus
        /\ mie = r.mie
        /\ mtimecmp = r.mtimecmp
    /\ mepc = 0
    /\ mcause = 0
    /\ mtime = Zero64
    /\ layout \in DataLayouts
    /\ \E fill \in RamFills : mem = ResetMem(layout, fill)
    /\ init_values_ptr = 0 /\ data_ptr = 0
    /\ mcauseL = 0
    /\ period = Zero64
    /\ smp = Zero64
    /\ half = "-"
    /\ out = {}
    /\ active = << >>
    /\ writes = {}
    /\ entryMepc = 0
    /\ entryCmp = Zero64
    /\ afterCmp = << >>
    /\ rearms = 0
    /\ cmpWrites = NoWrites
    /\ timerEntries = 0
    /\ entryRegs = regs
    /\ seen = {}
    /\ copyDone = FALSE
    /\ wrapped = FALSE
    /\ ticks = 0

NextInitData ==
    \/ ResetSetSp \/ ResetSetGp \/ ResetCallInit
    \/ InitEntry \/ InitLoop \/ InitRet

SpecInitData == InitInitData /\ [][NextInitData]_vars

(***************************************************************************)
(* The boot sequence with an application entry point that returns.         *)
(* startup.S ends in  tail main : a jump that does not write ra, and no    *)
(* instruction of _setup_stack or of the table before it writes ra, so     *)
(* the ret of main jumps to whatever ra held at reset.                     *)
(***************************************************************************)
\* where the ret of main can lead: ra at reset may hold any address; 0,
\* the reset vector, and 12, an unused slot of the table, are the two tried
UndefinedReturns == {LabelAt(0), LabelAt(12)}

\* main returns instead of idling: ret with the ra of its entry.  Only the
\* first run of main returns; when the boot sequence is entered again, the
\* second run idles.
EntryReturn ==
    /\ build = "c"
    /\ pc = "main_loop"
    /\ active = << >>
    /\ cmpWrites["foreground"] = 1
    /\ \E l \in UndefinedReturns : Goto(l)

NextEntryPoint == Next \/ EntryReturn

\* reset with the counter at zero
InitEntryPoint == Init /\ mtime = Zero64

SpecEntryPoint == InitEntryPoint /\ [][NextEntryPoint]_vars

(***************************************************************************)
(* The whole machine on hardware that also enters the table for causes the *)
(* table leaves unused: an interrupt whose slot holds a no-op, or whose    *)
(* slot lies behind the last entry.                                        *)
(***************************************************************************)
\* the slots the hardware can enter: those of the table and the two
\* instructions behind it
EnterableSlots(b) == 0..(VectorSlots(b) + Len(AfterTable(b)) - 1)

\* an interrupt on an unused cause, taken while the application runs with
\* interrupts enabled; it is the first trap of the run
ReservedTrap ==
    /\ pc = "main_loop"
    /\ active = << >>
    /\ BitMIE \in mstatus
    /\ entryMepc = 0
    /\ \E n \in EnterableSlots(build) :
        /\ SlotKind(build, n) \in {"nop", "none"}
        /\ TrapEntry("reserved", IntCause(n - SlotBase), n)

NextReserved == Next \/ ReservedTrap

InitReserved == Init /\ mtime = Zero64

SpecReserved == InitReserved /\ [][NextReserved]_vars

(***************************************************************************)
(* Properties                                                              *)
(***************************************************************************)
InActive(h) == \E i \in 1..Len(active) : active[i] = h

\* the synchronous enumeration of trap.c
EnumeratedCauses == {0, 1, 2, 3, 4, 5, 6, 7, 11}

\* where the hart is while the NMI handler runs
NmiLabels == {"vec1", "nmi_printf", "nmi_halt"}

\* the newlib _exception_handler is active and has read a cause outside
\* the enumeration
UnknownCauseRead ==
    /\ build = "newlib"
    /\ InActive("exception")
    /\ mcauseL \notin EnumeratedCauses

\* C1: once _exception_handler has read a cause outside {0..7, 11} it
\* never reaches the trap-return: the handler stays active, the hart goes
\* from the switch to the handler's halt loop and stays there, and mepc is
\* never written.
C1_UnknownCauseNeverReturns ==
    [][ UnknownCauseRead =>
            /\ UnknownCauseRead'
            /\ pc' \in {"exc_switch", "exc_halt"}
            /\ (pc = "exc_halt" => pc' = "exc_halt")
            /\ mepc' = mepc
            /\ writes' = writes ]_vars

\* C1 witness: the handler sits in its halt loop after reading a cause
\* with the interrupt bit set
C1_Witness ==
    /\ UnknownCauseRead
    /\ pc = "exc_halt"
    /\ mcauseL = IntCause(CauseTimer)

\* the comparator after each of the last two completed timer traps
TwoTimerTraps == Len(afterCmp) = 2

\* the timer handler has called set_timeout by the time it stands at its
\* trap-return
RearmedBeforeReturn == pc = "tmr_mret" => rearms >= 1

\* C2: the timer handler calls set_timeout before its trap-return on every
\* path, and over consecutive timer traps, while the counter has not
\* wrapped and counter + period fits in 64 bits, the comparator after a
\* trap is strictly greater than after the previous trap.
C2_AsStated ==
    /\ RearmedBeforeReturn
    /\ (TwoTimerTraps /\ ~wrapped /\ ~afterCmp[2].carry =>
            LtU64(afterCmp[1].cmp, afterCmp[2].cmp))

\* the instructions of set_timeout
SetTimeoutLabels == {"st_read1", "st_read2", "st_write1", "st_write2"}

\* the call made by CallSetTimeout has returned
SetTimeoutReturned == pc = "main_mtie" /\ ra = "main_mtie"

\* C3: when set_timeout(p) returns, the comparator minus the counter value
\* the call read is p modulo 2^64; every period is accepted and each
\* instruction of the call can execute; the call's only write is the
\* comparator: the privileged registers, the registers sp, gp and t0, RAM
\* and the console are as they were.
C3_SetTimeoutSum ==
    /\ [](SetTimeoutReturned =>
            /\ SubU64(mtimecmp, smp) = period
            /\ writes = {[by |-> "foreground", reg |-> "mtimecmp"]})
    /\ [](pc \in SetTimeoutLabels =>
            ENABLED (StRead1 \/ StRead2 \/ StWrite1 \/ StWrite2))
    /\ [][ (pc \in SetTimeoutLabels) =>
            UNCHANGED << csrs, sp, gp, t0, mem, out >> ]_vars

\* C3 witness: a call returned whose sum did not fit in 64 bits
C3_Witness ==
    /\ SetTimeoutReturned
    /\ period = Max64
    /\ CarryU64(smp, period) = 1
    /\ mtimecmp = SubU64(smp, FromInt(1))

\* the newlib _exception_handler is handling an environment call and has
\* not yet reached its trap-return
EcallHandling ==
    /\ build = "newlib"
    /\ Ctx = "exception"
    /\ mcause = MCAUSE_MMODE_ECALL
    /\ pc # "exc_mret"

\* C4: for an environment call from machine mode the newlib
\* _exception_handler reaches its trap-return with mepc equal to the value
\* at trap entry plus 4, and up to that trap-return it writes no privileged
\* register other than mepc and not the comparator.
C4_EcallSkipsInstruction ==
    /\ [](pc = "exc_mret" /\ mcauseL = MCAUSE_MMODE_ECALL =>
            mepc = entryMepc + 4)
    /\ [][ EcallHandling =>
            /\ UNCHANGED << mstatus, mie, mcause, mtimecmp >>
            /\ writes' \subseteq
                    writes \cup {[by |-> "exception", reg |-> "mepc"]} ]_vars

\* C4 witness: the handler stands at its trap-return after an environment
\* call, mepc moved on by one instruction
C4_Witness ==
    /\ pc = "exc_mret"
    /\ Ctx = "exception"
    /\ mcauseL = MCAUSE_MMODE_ECALL
    /\ mepc = entryMepc + 4
    /\ [by |-> "exception", reg |-> "mepc"] \in writes

\* C5 as stated: a trap-return is executed only by the timer handler and
\* by the exception handler handling an environment call; for every other
\* cause the handler halts.
C5_AsStated ==
    pc \in {"exc_mret", "tmr_mret"} =>
        \/ Ctx = "timer"
        \/ (Ctx = "exception" /\ mcauseL = MCAUSE_MMODE_ECALL)

\* the labels of a handler that only reports and halts
FailStopLabels(h) ==
    CASE h = "nmi"      -> NmiLabels
      [] h = "software" -> {"vec5", "sw_printf", "sw_halt"}
      [] h = "external" -> {"vec13", "ext_printf", "ext_halt"}

FailStopHalt(h) ==
    CASE h = "nmi"      -> "nmi_halt"
      [] h = "software" -> "sw_halt"
      [] h = "external" -> "ext_halt"

FailStopHandlers == {"nmi", "software", "external"}

\* C6: the NMI, software-interrupt and external-interrupt handlers report
\* and then halt: while one of them is the running handler the hart is at
\* one of its own instructions, at its halt loop its message has been
\* written, it never leaves the set of active handlers (no trap-return),
\* and its steps write nothing: mepc and the comparator stay as they were
\* at its entry.
C6_FailStopHandlers ==
    /\ [](\A h \in FailStopHandlers :
            /\ Ctx = h => pc \in FailStopLabels(h)
            /\ (Ctx = h /\ pc = FailStopHalt(h)) =>
                    [by |-> h, msg |-> h] \in out)
    /\ [][ \A h \in FailStopHandlers :
            /\ InActive(h) => InActive(h)'
            /\ Ctx = h =>
                /\ mtimecmp' = mtimecmp
                /\ writes' = writes
                /\ mepc' = mepc ]_vars

\* C6 witness: the external-interrupt handler sits in its halt loop, its
\* message written, while the timer interrupt is enabled and pending
C6_Witness ==
    /\ active = <<"external">>
    /\ pc = "ext_halt"
    /\ [by |-> "external", msg |-> "external"] \in out
    /\ BitMTIE \in mie
    /\ TimerPending

\* everything but the two enable registers, t0 and the program counter
CsrBystanders ==
    << mepc, mcause, mtime, mtimecmp, mem, sp, gp, out >>

\* C7: global_enable_interrupts sets bit 3 of mstatus in one instruction
\* and leaves every other bit of mstatus and everything else unchanged;
\* enable_machine_timer_interrupt sets bit 7 of mie in one instruction and
\* leaves every other bit of mie, and mstatus, unchanged; a call made when
\* the bit is already set changes nothing in the register.
C7_EnableRoutinesSetOneBit ==
    /\ [][ (pc = "gei_csrrsi") =>
            /\ mstatus' = mstatus \cup {3}
            /\ (3 \in mstatus => mstatus' = mstatus)
            /\ mie' = mie
            /\ UNCHANGED CsrBystanders ]_vars
    /\ [][ (pc = "emt_li") =>
            /\ UNCHANGED << mstatus, mie >>
            /\ UNCHANGED CsrBystanders ]_vars
    /\ [][ (pc = "emt_csrrs") =>
            /\ mie' = mie \cup {7}
            /\ (7 \in mie => mie' = mie)
            /\ mstatus' = mstatus
            /\ UNCHANGED CsrBystanders ]_vars

\* C7 witness: both routines have been called from registers that held
\* other bits; those bits are still there and the two enables are set
C7_Witness ==
    /\ pc = "main_printf"
    /\ writes = {[by |-> "foreground", reg |-> "mie"],
                 [by |-> "foreground", reg |-> "mstatus"]}
    /\ mstatus = {0, 3, 31}
    /\ mie = {7, 11, 31}

\* _edata - _sdata
DataLen == layout.edata - layout.sdata

InterruptHandlers == {"software", "timer", "external"}

\* the instructions of global_enable_interrupts
GlobalEnableLabels == {"gei_csrrsi"}

C10_EnabledOnlyAfterCopy ==
    build = "newlib" =>
        /\ BitMIE \in mstatus =>
                [by |-> "foreground", reg |-> "mstatus"] \in writes
        /\ BitMTIE \in mie =>
                [by |-> "foreground", reg |-> "mie"] \in writes
        /\ (BitMIE \in mstatus \/ BitMTIE \in mie) => copyDone
        /\ ~copyDone => \A h \in InterruptHandlers : ~InActive(h)

\* C10 witness: the timer handler runs in the newlib build; the data has
\* been copied from its image to RAM
C10_Witness ==
    /\ build = "newlib"
    /\ active = <<"timer">>
    /\ copyDone
    /\ layout.load # layout.sdata
    /\ \A i \in 0..(DataLen - 1) : mem[layout.sdata + i] = ImageByte(i)

\* both enables of the timer interrupt are set
TimerEnabled == BitMIE \in mstatus /\ BitMTIE \in mie

\* a cause whose handler halts has occurred
FailStopped ==
    \/ pc \in HaltLabels
    \/ \E h \in {"nmi", "software", "external", "exception"} : InActive(h)

\* the timer handler has just returned: the interrupted code is about to
\* resume and the last completed timer trap is the one recorded
TimerJustReturned ==
    /\ active = << >>
    /\ afterCmp # << >>
    /\ afterCmp[Len(afterCmp)].cmp = mtimecmp
    /\ rearms >= 1

\* C11: once main has armed and enabled the timer, the timer trap recurs:
\* every timer trap-return leaves both enables set and the comparator
\* freshly written by the handler's set_timeout; whenever the counter has
\* reached the comparator with both enables set, the timer handler is
\* entered (unless a cause that halts occurs first or the counter wraps
\* round to zero); and once entered the handler reaches its trap-return.
C11_TimerRecurs ==
    /\ [][ (pc = "tmr_mret" /\ Ctx = "timer" /\ pc' # pc) =>
            /\ TimerEnabled'
            /\ rearms >= 1
            /\ mtimecmp' = SetTimeoutSum(smp, period)
            /\ active' = << >> ]_vars
    /\ (TimerEnabled /\ TimerPending /\ active = << >>)
            ~> (InActive("timer") \/ FailStopped \/ wrapped)
    /\ InActive("timer") ~> TimerJustReturned

\* C11 witness: the timer handler has returned twice; the interrupt is
\* enabled and armed for a third time
C11_Witness ==
    /\ Len(afterCmp) = 2
    /\ TimerJustReturned
    /\ TimerEnabled
    /\ ~TimerPending
    /\ ~FailStopped

\* the slot assignment: reset, NMI, the trap base, and the vectored
\* interrupts at the trap base plus their cause codes
ClaimedSlot(n) ==
    CASE n = 0  -> "reset"
      [] n = 1  -> "nmi"
      [] n = 2  -> "exception"
      [] n = 5  -> "software"
      [] n = 9  -> "timer"
      [] n = 13 -> "external"
      [] OTHER  -> "nop"

\* the first instruction of the routines of each class
RoutineLabels(kind) ==
    CASE kind = "reset"     -> {"reset_sp", "c_setup_sp"}
      [] kind = "nmi"       -> {"nmi_printf"}
      [] kind = "exception" -> {"exc_read", "excc_printf"}
      [] kind = "software"  -> {"sw_printf"}
      [] kind = "timer"     -> {"tmr_printf", "tmr_call"}
      [] kind = "external"  -> {"ext_printf"}

EntryReturned ==
    /\ pc = "main_loop" /\ pc' # "main_loop"
    /\ active = << >> /\ active' = << >>

C13_AsStated == [][ EntryReturned => pc' \in HaltLabels ]_vars


(***************************************************************************)
(* C14: if the deadline set_timeout wrote is already reached when the      *)
(* timer handler executes its trap-return (counter >= new comparator), a   *)
(* further timer trap is taken right after the return, and a tick is never *)
(* missed.  Stated as: such a trap-return ends in a state in which the     *)
(* timer interrupt is pending with both enables set and no handler active, *)
(* so that the trap can be taken before any further instruction; and,      *)
(* with the hart executing and a pending enabled interrupt being taken,    *)
(* whenever counter >= comparator with both enables set the timer handler  *)
(* is entered, unless a halting cause is taken first or the counter wraps  *)
(* past 2^64 - 1 to below the comparator.                                  *)
(***************************************************************************)
LateReturn == pc = "tmr_mret" /\ Ctx = "timer" /\ pc' # pc /\ TimerPending

C14_LateDeadlineRefires ==
    /\ [][ LateReturn =>
            /\ TimerEnabled' /\ TimerPending'
            /\ active' = << >> ]_vars
    /\ [](TimerEnabled /\ TimerPending =>
            <>(InActive("timer") \/ FailStopped \/ wrapped))

\* the handler is entered again for a deadline that was reached when the
\* previous trap-return executed
C14_Witness ==
    /\ pc = "vec9" /\ Ctx = "timer"
    /\ afterCmp # << >>
    /\ afterCmp[Len(afterCmp)].late
    /\ afterCmp[Len(afterCmp)].cmp = mtimecmp
    /\ GeU64(mtime, mtimecmp)


(***************************************************************************)
(* C15: the comparator is written only by set_timeout, once by the         *)
(* application at startup and once per timer trap: in every reachable      *)
(* state the number of comparator writes is 1 (once main has armed the     *)
(* timer) plus the number of timer traps whose handler has done its        *)
(* rearm, and no other handler and no boot step writes it.  A write is     *)
(* one execution of the assignment *mtimecmp = ..., counted when its       *)
(* second 32-bit store is done; the traps are counted up to MaxTraps.      *)
(***************************************************************************)
CmpWriteCount ==
    cmpWrites["foreground"] + cmpWrites["timer"] + cmpWrites["nmi"]
        + cmpWrites["exception"] + cmpWrites["software"]
        + cmpWrites["external"]

\* timer traps whose handler has completed its rearm
RearmedTraps ==
    timerEntries - (IF InActive("timer") /\ rearms = 0 THEN 1 ELSE 0)

\* main has gone past its call of set_timeout
MainArmed ==
    \/ [by |-> "foreground", reg |-> "mie"] \in writes
    \/ cmpWrites["foreground"] >= 1

C15_ComparatorWrites ==
    /\ [](timerEntries < MaxTraps =>
            CmpWriteCount = (IF MainArmed THEN 1 ELSE 0) + RearmedTraps)
    /\ [](\A c \in Contexts \ {"foreground", "timer"} : cmpWrites[c] = 0)
    /\ [](cmpWrites["foreground"] <= 1 /\ rearms <= 1)
    /\ [](timerEntries >= 1 => cmpWrites["foreground"] = 1)
    /\ [][ (mtimecmp' # mtimecmp \/ cmpWrites' # cmpWrites) =>
            /\ pc \in {"st_write1", "st_write2"}
            /\ Ctx \in {"foreground", "timer"}
            /\ (Ctx = "foreground") => (ra = "main_mtie")
            /\ (Ctx = "timer") => (ra = "tmr_mret") ]_vars

C15_Witness ==
    /\ timerEntries = 2 /\ pc = "tmr_mret" /\ Ctx = "timer"
    /\ CmpWriteCount = 3 /\ cmpWrites["timer"] = 2


(***************************************************************************)
(* C16: after main has enabled interrupts no global mutable datum is       *)
(* written by both foreground code and a handler, so no interleaving of a  *)
(* timer trap with foreground code races on shared state.  Stated for the  *)
(* output path, the datum both sides reach through printf, and for the     *)
(* handler that returns to the foreground: while a printf of the           *)
(* foreground is in progress, the timer handler has not written the        *)
(* output port.                                                            *)
(***************************************************************************)
\* the foreground has begun a printf and not finished it
ForegroundPrinting ==
    /\ [by |-> "foreground", msg |-> "Enabled"] \in out
    /\ [by |-> "foreground", msg |-> "Enabled timer!"] \notin out

C16_AsStated == ForegroundPrinting => \A o \in out : o.by # "timer"


(***************************************************************************)
(* C17: for the synchronous causes 0..7 the newlib _exception_handler      *)
(* takes no corrective action: it writes no privileged register, leaves    *)
(* mepc at the value saved at trap entry and proceeds to the trap-return,   *)
(* so that execution resumes at the faulting instruction.                  *)
(***************************************************************************)
FaultHandling ==
    /\ build = "newlib"
    /\ Ctx = "exception"
    /\ mcause \in DefinedFaults

C17_FaultsResumeInPlace ==
    /\ [](FaultHandling =>
            /\ pc \in {"vec2", "exc_read", "exc_switch", "exc_mret"}
            /\ mepc = entryMepc)
    /\ [][ (FaultHandling /\ pc # "exc_mret") =>
            /\ UNCHANGED << csrs, mtimecmp, writes >>
            /\ FaultHandling' ]_vars
    /\ [][ (FaultHandling /\ pc = "exc_mret" /\ pc' # pc) =>
            /\ pc' = LabelAt(entryMepc)
            /\ active' = << >>
            /\ UNCHANGED << mepc, mcause, mie, mtimecmp, writes >> ]_vars

\* the handler has returned from a store access fault (cause 7) to the
\* instruction that raised it
C17_Witness ==
    /\ build = "newlib"
    /\ mcause = 7
    /\ active = << >>
    /\ mepc = entryMepc
    /\ pc = LabelAt(entryMepc)
    /\ [by |-> "exception", reg |-> "mepc"] \notin writes


(***************************************************************************)
(* C18: the timer handler writes none of mepc, mcause, mstatus and mie, so *)
(* its trap-return resumes exactly at the address saved at trap entry and  *)
(* sets the global interrupt enable again, as it was before the trap; the  *)
(* resumption and the restoring of the enable are one step, so no trap is  *)
(* taken in between with stale saved state.                                *)
(***************************************************************************)
TimerHandling == Ctx = "timer" /\ pc # "tmr_mret"

C18_TimerHandlerFrame ==
    /\ [](Ctx = "timer" =>
            /\ mepc = entryMepc
            /\ mcause = IntCause(CauseTimer)
            /\ BitMIE \notin mstatus /\ BitMPIE \in mstatus
            /\ BitMTIE \in mie)
    /\ [][ TimerHandling =>
            /\ UNCHANGED csrs
            /\ writes' \subseteq
                    writes \cup {[by |-> "timer", reg |-> "mtimecmp"]}
            /\ Ctx' = "timer" ]_vars
    /\ [][ (Ctx = "timer" /\ pc = "tmr_mret" /\ pc' # pc) =>
            /\ pc' = LabelAt(entryMepc)
            /\ BitMIE \in mstatus'
            /\ active' = << >>
            /\ UNCHANGED << mepc, mcause, mie, writes >> ]_vars

\* the timer handler has returned into main's printf, which it interrupted
C18_Witness ==
    /\ active = << >>
    /\ afterCmp # << >>
    /\ pc = "main_printf2"
    /\ mepc = Addr("main_printf2") /\ entryMepc = mepc
    /\ mcause = IntCause(CauseTimer)
    /\ BitMIE \in mstatus


(***************************************************************************)
(* C19: from reset the newlib boot sequence does its steps in strict       *)
(* order: the stack pointer first, to a 16-byte aligned top of stack, then *)
(* the global pointer, then the copy of the initialised data up to its     *)
(* return, and only then the jump to the application entry.  No routine    *)
(* is called by the boot sequence before sp is set, the copy runs once,    *)
(* and no application code runs before the copy has returned.              *)
(***************************************************************************)
\* the steps of _initialise_data
CopyLabels == {"init_entry", "init_loop", "init_ret"}

\* the steps of main and of the routines it calls
ApplicationLabels ==
    {"main_call", "main_mtie", "main_mie", "main_printf", "main_printf2",
     "main_loop", "st_read1", "st_read2", "st_write1", "st_write2",
     "emt_li", "emt_csrrs", "gei_csrrsi"}

\* the boot sequence or the application executes, no handler
BootForeground == build = "newlib" /\ active = << >>

C19_BootOrder ==
    /\ [](StackTop % 16 = 0)
    /\ [](BootForeground /\ timerEntries = 0
                /\ pc \notin {"vec0", "reset_sp"} =>
            sp = StackTop)
    /\ [](BootForeground /\ pc \notin {"vec0", "reset_sp", "reset_gp"} =>
            gp = GlobalPointer(layout.sdata))
    /\ [](BootForeground /\ pc \in CopyLabels =>
            ~copyDone /\ ra = "reset_tail")
    /\ [](BootForeground /\ pc \in ApplicationLabels \cup {"reset_tail"} =>
            /\ copyDone
            /\ \A i \in 0..(DataLen - 1) :
                    mem[layout.sdata + i] = ImageByte(i))
    /\ [][ (build = "newlib" /\ active' = << >> /\ pc' # pc) =>
            /\ pc' # "vec0"
            /\ (pc' = "reset_sp") => (pc = "vec0")
            /\ (pc' = "reset_gp") => (pc = "reset_sp")
            /\ (pc' = "reset_call") => (pc = "reset_gp")
            /\ (pc' = "init_entry") => (pc = "reset_call")
            /\ (pc' = "reset_tail") => (pc = "init_ret")
            /\ (pc' = "main_call") => (pc = "reset_tail") ]_vars

\* the application entry is reached: sp, gp and the data are in place
C19_Witness ==
    /\ BootForeground /\ pc = "main_call"
    /\ sp = StackTop /\ gp = GlobalPointer(layout.sdata)
    /\ copyDone /\ DataLen > 0
    /\ \A i \in 0..(DataLen - 1) : mem[layout.sdata + i] = ImageByte(i)
    /\ writes = {[by |-> "foreground", reg |-> "data"]}


(***************************************************************************)
(* C20: when the load address and the runtime address differ,              *)
(* _initialise_data writes exactly the bytes of [_sdata, _edata) and       *)
(* nothing else, whatever the length, a length that is not a multiple of   *)
(* 4 and the empty range included: no step of the routine changes a byte   *)
(* at or beyond _edata, and none moves the source pointer beyond the load  *)
(* address + (_edata - _sdata).                                            *)
(***************************************************************************)
C20_AsStated ==
    [][ (pc \in CopyLabels /\ layout.load # layout.sdata) =>
            /\ \A a \in DOMAIN mem :
                    (a < layout.sdata \/ a >= layout.edata) =>
                        mem'[a] = mem[a]
            /\ init_values_ptr' <= layout.load + DataLen ]_vars


\* set_timeout has assembled its sample of the counter and not yet returned
SampleTaken == pc \in {"st_write1", "st_write2"}

\* C22: on the 32-bit target the value set_timeout uses as the counter is
\* always a value the free-running counter held at some instant between the
\* call's two 32-bit loads, never the low half of one value joined to the
\* high half of another.
C22_AsStated == SampleTaken => smp \in seen


\* the timer handler has rearmed and stands at its trap-return
HandlerRearmed == pc = "tmr_mret" /\ Ctx = "timer" /\ rearms >= 1

\* C21: timer ticks never come faster than the period.  Barring 64-bit
\* overflow (the counter has not wrapped, no sum carries out of bit 63), the
\* counter value the timer handler samples at its rearm is never below the
\* deadline that caused the trap, and of two consecutive rearms by the
\* handler the later deadline is at least the earlier deadline plus the
\* period.
C21_AsStated ==
    /\ (HandlerRearmed /\ ~wrapped /\ CarryU64(smp, period) = 0 =>
            /\ GeU64(smp, entryCmp)
            /\ CarryU64(entryCmp, period) = 0 =>
                    GeU64(mtimecmp, AddU64(entryCmp, period)))
    /\ (TwoTimerTraps /\ ~wrapped /\ ~afterCmp[2].carry
            /\ CarryU64(afterCmp[1].cmp, FromInt(TimerPeriod(build))) = 0 =>
            GeU64(afterCmp[2].cmp,
                  AddU64(afterCmp[1].cmp, FromInt(TimerPeriod(build)))))

\* the same statement for rearms whose sample is a value the counter held:
\* it holds, so C21 fails through the torn sample of C22 only
UntornRearmsKeepPeriod ==
    /\ (HandlerRearmed /\ ~wrapped /\ CarryU64(smp, period) = 0
            /\ smp \in seen =>
            /\ GeU64(smp, entryCmp)
            /\ CarryU64(entryCmp, period) = 0 =>
                    GeU64(mtimecmp, AddU64(entryCmp, period)))
    /\ (TwoTimerTraps /\ ~wrapped /\ ~afterCmp[2].carry
            /\ ~afterCmp[1].torn /\ ~afterCmp[2].torn
            /\ CarryU64(afterCmp[1].cmp, FromInt(TimerPeriod(build))) = 0 =>
            GeU64(afterCmp[2].cmp,
                  AddU64(afterCmp[1].cmp, FromInt(TimerPeriod(build)))))


(***************************************************************************)
(* C24: a trap that enters the table at a no-op slot runs no-ops up to the *)
(* next jump entry and is handled by that entry's handler; a trap that     *)
(* enters behind the last entry runs the reset code.                       *)
(***************************************************************************)
\* the running trap entered the table at slot n
EnteredAt(n) == Ctx = "reserved" /\ mcause = IntCause(n - SlotBase)

\* the no-op slots and, for each, the jump entry the claim says it reaches
NopSlots == {3, 4, 6, 7, 8, 10, 11, 12}

ReachedEntry(n) == IF n <= 4 THEN 5 ELSE IF n <= 8 THEN 9 ELSE 13

\* the instructions of each handler that a no-op slot leads to
HandlerLabels(kind) ==
    CASE kind = "software" -> {"sw_printf", "sw_halt"}
      [] kind = "timer"    -> {"tmr_printf", "tmr_call", "tmr_mret"}
                                  \cup SetTimeoutLabels
      [] kind = "external" -> {"ext_printf", "ext_halt"}

\* the reset code of each build
ResetCode(b) ==
    IF b = "newlib" THEN {"reset_sp", "reset_gp", "reset_call", "reset_tail"}
    ELSE {"c_setup_sp", "c_setup_addi"}

\* the first half of C24: entry at slots 3, 4 runs the software-interrupt
\* handler, at 6, 7, 8 the timer handler, which rearms the comparator and
\* returns, at 10, 11, 12 the external-interrupt handler, and the no-ops on
\* the way change nothing
NopSlotsFallThrough ==
    /\ [](\A n \in NopSlots :
            /\ SlotKind(build, n) = "nop"
            /\ EnteredAt(n) =>
                /\ pc \in {Code[k + 1] : k \in n..ReachedEntry(n)}
                        \cup HandlerLabels(ClaimedSlot(ReachedEntry(n)))
                /\ pc = "tmr_mret" =>
                        [by |-> "reserved", reg |-> "mtimecmp"] \in writes)
    /\ [][ \A n \in NopSlots :
            /\ (active = << >> /\ EnteredAt(n)') => pc' = Code[n + 1]
            /\ \A k \in n..ReachedEntry(n) :
                (EnteredAt(n) /\ pc = Code[k + 1] /\ pc' # pc) =>
                    /\ UNCHANGED << regs, csrs, mtimecmp, mem, out, writes,
                                    active >>
                    /\ IF k < ReachedEntry(n) THEN pc' = Code[k + 2]
                       ELSE pc' \in RoutineLabels(
                                        ClaimedSlot(ReachedEntry(n)))
            /\ (EnteredAt(n) /\ pc = "tmr_mret" /\ pc' # pc) =>
                    /\ active' = << >>
                    /\ pc' = LabelAt(entryMepc) ]_vars

\* C24: the first half, and entry at slot 14 or 15, behind the last table
\* entry, lands in the reset code that follows the table.
C24_AsStated ==
    /\ NopSlotsFallThrough
    /\ [][ \A n \in {14, 15} :
            (active = << >> /\ EnteredAt(n)') => pc' \in ResetCode(build)
         ]_vars

(***************************************************************************)
(* C23: a handler that resumes the interrupted context hands back the      *)
(* registers it found.                                                     *)
(***************************************************************************)
\* a handler that resumes stands at its trap-return: the timer handler, or
\* the exception handler after an environment call
ResumingReturn ==
    \/ pc = "tmr_mret" /\ Ctx = "timer"
    \/ pc = "exc_mret" /\ Ctx = "exception" /\ mcause = MCAUSE_MMODE_ECALL

\* C23: at the trap-return of the timer handler and of the exception
\* handler's environment-call path sp, ra and the other general-purpose
\* registers equal their values at trap entry, and after any number of
\* timer traps the foreground runs on the stack pointer the boot sequence
\* set.
C23_AsStated ==
    /\ ResumingReturn => regs = entryRegs
    /\ (active = << >> /\ timerEntries >= 1) => sp = BootStack(build)

\* the environment-call path alone: the handler is a leaf, it calls nothing
\* and has no frame, and hands back ra, sp, gp and t0
EcallPathKeepsRegisters ==
    (pc = "exc_mret" /\ Ctx = "exception") => regs = entryRegs

====
